---- MODULE Spec2Model ----
(***************************************************************************)
(* A model of claude_muzak.py: the marker file, the loop-driver processes  *)
(* it spawns (bash -c 'while true; do afplay ...; done') with their afplay *)
(* children, and the executions of the tool (start, stop, run, hook start, *)
(* hook stop), each a main thread plus, for the interactive start, the     *)
(* daemon listener thread.  Every step of a handler that touches the       *)
(* marker file, the process table or the terminal is one action.           *)
(***************************************************************************)
EXTENDS Integers, Sequences, FiniteSets, TLC

\* ---------------------------------------------------------------- bounds
\* Number of processes Popen may spawn in one behaviour.
MaxSpawn == 2
\* The pid the operating system gives the first spawned driver; the next
\* ones follow, so that pids of one and of two decimal digits occur.
FirstPid == 9
\* A pid recorded in a marker left behind by a session that is gone.
StalePid == 7
\* Interrupts (SIGINT) delivered to one execution of the tool.
MaxIntr == 1

Execs == {"e1", "e2"}
Kinds == {"main", "lsn"}
Threads == Execs \X Kinds
Main(e) == <<e, "main">>
Lsn(e) == <<e, "lsn">>
Pids == FirstPid .. (FirstPid + MaxSpawn - 1)
Commands == {"start", "stop", "run", "hook_start", "hook_stop"}
\* Exit statuses of the wrapped command of `run`.
ExitCodes == {0, 1, 127}
\* Modes the terminal can be in when the listener captures it.
TermModes == {"cooked", "cbreak"}
\* Bytes the listener can read: ESC, Ctrl+C, 'q', 'Q', 'x'.
Bytes == {27, 3, 113, 81, 120}

VARIABLES
    marker,   \* the pid file: [exists, content]
    driver,   \* driver[p]: the spawned bash loop with pid p is live
    player,   \* player[p]: the afplay forked by driver p: "none", "child", "orphan"
    nextPid,  \* the pid the next Popen gets
    ex,       \* ex[e]: one execution of the tool (a process running main())
    th,       \* th[t]: one thread: pc, stack of call sites, local pid, open file
    hist,     \* hist[e]: what this execution has done so far (observations)
    sview     \* sview[t]: what the stop_music call of thread t has seen and tried

vars == <<marker, driver, player, nextPid, ex, th, hist, sview>>

\* ------------------------------------------------- str(pid) and int(text)
Digits == <<"0", "1", "2", "3", "4", "5", "6", "7", "8", "9">>

RECURSIVE Str(_)
\* str(process.pid): the decimal digits of n, most significant first.
Str(n) == IF n < 10 THEN <<Digits[n + 1]>>
          ELSE Str(n \div 10) \o <<Digits[(n % 10) + 1]>>

DigitVal(c) == (CHOOSE i \in 1..10 : Digits[i] = c) - 1

IsDigit(c) == \E i \in 1..10 : Digits[i] = c

\* int(f.read().strip()) raises ValueError unless the text is a numeral.
IsNumeral(s) == Len(s) > 0 /\ \A i \in 1..Len(s) : IsDigit(s[i])

RECURSIVE IntOf(_)
IntOf(s) == IF Len(s) = 1 THEN DigitVal(s[1])
            ELSE 10 * IntOf(SubSeq(s, 1, Len(s) - 1)) + DigitVal(s[Len(s)])

\* A write of w at offset 0 of a file holding cur (no truncation at write).
Overlay(cur, w) == IF Len(w) >= Len(cur) THEN w
                   ELSE w \o SubSeq(cur, Len(w) + 1, Len(cur))

NoMarker == [exists |-> FALSE, content |-> <<>>]
MarkerOf(s) == [exists |-> TRUE, content |-> s]

\* What a marker can hold before the tool first runs: nothing, the pid of a
\* process that is gone, or text that is no pid.
InitialMarkers == {NoMarker, MarkerOf(Str(StalePid)), MarkerOf(<<"x">>), MarkerOf(<<>>)}

\* -------------------------------------------------------------- processes
\* os.kill(pid, 0): succeeds when pid is a live process.
Alive(p) == p \in Pids /\ driver[p]

\* pkill -P pid: the players whose parent is the live process pid are killed.
AfterPkillP(p) ==
    [q \in Pids |-> IF q = p /\ driver[p] /\ player[q] = "child" THEN "none"
                    ELSE player[q]]

\* os.kill(pid, SIGTERM): the driver dies; its afplay child lives on, orphaned.
DriversAfterKill(p) == [q \in Pids |-> IF q = p THEN FALSE ELSE driver[q]]
PlayersAfterKill(p) ==
    [q \in Pids |-> IF q = p /\ driver[p] /\ player[q] = "child" THEN "orphan"
                    ELSE player[q]]

\* pkill -f 'afplay.*muzakfiles': the pattern is matched against the whole
\* command line, so it matches every afplay playing a file of muzakfiles/
\* and every driver, whose command line is
\* bash -c 'while true; do afplay "<music_dir>/<file>"; done'.
DriversAfterSweep == [q \in Pids |-> FALSE]

\* A sweep whose pattern matches no afplay.
PlayersNotSwept == player

PlayersAfterSweep == [q \in Pids |-> "none"]

\* -------------------------------------------------------------- control
\* pcs at which the process is leaving main() with an exit status.
ExitPcs == {"exit0", "exit1", "exit130", "exitrc"}
StopPcs == {"stm_exists", "stm_read", "stm_pkillp", "stm_kill", "stm_unlink",
            "stm_sweep"}
CheckPcs == {"imp_exists", "imp_read", "imp_probe", "imp_exc", "imp_unlink"}
StartPcs == {"sm_select", "sm_spawn", "sm_open", "sm_write"}

At(p, s) == [pc |-> p, stack |-> s]

\* A main() whose KeyboardInterrupt handler exits without stop_music().
MainHandlerNoStop(kind) ==
    IF kind = "KI" THEN At("exit0", <<>>) ELSE At("exit1", <<>>)

\* main(): the handlers of its try block.  KeyboardInterrupt: stop_music(),
\* sys.exit(0).  Exception: sys.exit(1).
MainHandler(kind) ==
    IF kind = "KI" THEN At("stm_exists", <<"main_intr_stop">>)
    ELSE At("exit1", <<>>)

\* A Start that takes its liveness check to say "not playing" whatever it says.
AlreadyPlayingIgnored(val) == FALSE

\* lines 84 and 170: if self.is_music_playing(): ... return
AlreadyPlaying(val) == val = "T"

RECURSIVE Ret(_, _)
\* Where a thread continues when the call made at site Head(stk) returns val
\* ("T", "F" of is_music_playing, "-" of start_music and stop_music).
Ret(stk, val) ==
    LET site == Head(stk)
        rest == Tail(stk)
    IN CASE site = "sm_chk" ->
                IF AlreadyPlaying(val) THEN Ret(rest, "-") ELSE At("sm_select", rest)
         [] site = "smi_chk" ->
                IF AlreadyPlaying(val) THEN At("exit0", <<>>)
                ELSE At("imp_exists", <<"sm_chk", "smi_start">>)
         [] site = "smi_start" -> At("smi_kbd", <<>>)
         [] site = "smi_poll" ->
                IF val = "T" THEN At("smi_loop", <<>>) ELSE At("exit0", <<>>)
         [] site = "smi_intr_stop" -> At("exit0", <<>>)
         [] site = "rw_start" -> At("rw_cmd", <<>>)
         [] site = "rw_finally" -> At("exitrc", <<>>)
         [] site = "rw_finally_ki" -> MainHandler("KI")
         [] site = "rw_finally_ex" -> MainHandler("EX")
         [] site = "hk_start" -> At("hk_print", <<>>)
         [] site = "hk_stop" -> At("exit0", <<>>)
         [] site = "main_stop" -> At("exit0", <<>>)
         [] site = "main_intr_stop" -> At("exit0", <<>>)
         [] site = "l_stop" -> At("l_setflag", <<>>)

RECURSIVE Raise(_, _)
\* Where a thread continues when the call made at site Head(stk) raises an
\* exception of kind "EX" (an Exception) or "KI" (KeyboardInterrupt).
Raise(stk, kind) ==
    IF stk = <<>> THEN MainHandler(kind)
    ELSE LET site == Head(stk)
             rest == Tail(stk)
         IN CASE site = "sm_chk" ->
                     IF kind = "EX" THEN Ret(rest, "-") ELSE Raise(rest, kind)
              [] site = "smi_poll" ->
                     IF kind = "KI" THEN At("stm_exists", <<"smi_intr_stop">>)
                     ELSE Raise(rest, kind)
              [] site = "main_intr_stop" ->
                     IF kind = "KI" THEN At("exit130", <<>>) ELSE At("exit1", <<>>)
              [] site = "l_stop" -> At("l_finally", <<>>)
              [] OTHER -> Raise(rest, kind)

\* A KeyboardInterrupt raised in the main thread at pc p with stack stk.
OnInterrupt(p, stk) ==
    IF p = "smi_loop" THEN At("stm_exists", <<"smi_intr_stop">>)
    ELSE IF p = "rw_cmd" THEN At("stm_exists", <<"rw_finally_ki">>)
    ELSE Raise(stk, "KI")

\* The first pc and stack of main() for a command line.
Entry(c) ==
    CASE c = "start" -> At("imp_exists", <<"smi_chk">>)
      [] c = "stop" -> At("stm_exists", <<"main_stop">>)
      [] c = "run" -> At("imp_exists", <<"sm_chk", "rw_start">>)
      [] c = "hook_start" -> At("imp_exists", <<"sm_chk", "hk_start">>)
      [] c = "hook_stop" -> At("stm_exists", <<"hk_stop">>)

\* ------------------------------------------------------------------ state
ThreadOff == [pc |-> "off", stack |-> <<>>, pid |-> 0, fd |-> FALSE]
ExecIdle == [phase |-> "idle", cmd |-> "none", returncode |-> -1,
             stop_flag |-> FALSE, term |-> "cooked", old_settings |-> "none",
             exitCode |-> -1, intrs |-> 0]
NoCheck == [found |-> "none", ret |-> "none", gone |-> FALSE]
HistNone == [stops |-> 0, lstops |-> 0, restores |-> 0, stopAfterIntr |-> FALSE,
             stopAfterCmd |-> FALSE, cmdEnd |-> "none", chk |-> NoCheck,
             start |-> "none", recorded |-> FALSE, spawned |-> 0, err |-> FALSE,
             byte |-> 0, ack |-> FALSE, listener |-> "none", healed |-> FALSE,
             trig |-> 0]
ViewNone == [saw |-> "none", target |-> 0, desc |-> FALSE, kill |-> FALSE,
             orphaned |-> FALSE, unlinked |-> FALSE, swept |-> FALSE, done |-> FALSE,
             err |-> FALSE]

Init ==
    /\ marker \in InitialMarkers
    /\ driver = [p \in Pids |-> FALSE]
    /\ player = [p \in Pids |-> "none"]
    /\ nextPid = FirstPid
    /\ ex = [e \in Execs |-> ExecIdle]
    /\ th = [t \in Threads |-> ThreadOff]
    /\ hist = [e \in Execs |-> HistNone]
    /\ sview = [t \in Threads |-> ViewNone]

\* Thread t continues at r = At(pc, stack).
Go(t, r) == [th[t] EXCEPT !.pc = r.pc, !.stack = r.stack]
SetTh(t, new) == th' = [th EXCEPT ![t] = new]
\* The same, when the step unlinks the marker: a file held open is no longer
\* the file at the marker's path.
SetThUnlink(t, new) ==
    th' = [u \in Threads |-> IF u = t THEN [new EXCEPT !.fd = FALSE]
                             ELSE [th[u] EXCEPT !.fd = FALSE]]
SetHist(e, new) == hist' = [hist EXCEPT ![e] = new]
Procs == <<driver, player, nextPid>>
Running(t) == ex[t[1]].phase = "run"

\* ------------------------------------------------------------------ main()
\* main(): muzak = ClaudeMuzak(), then the dispatch on sys.argv[1].
Launch(e, c, m) ==
    /\ ex[e].phase # "run"
    /\ ex' = [ex EXCEPT ![e] = [ExecIdle EXCEPT !.phase = "run", !.cmd = c,
                                                !.term = m]]
    /\ th' = [th EXCEPT ![Main(e)] = Go(Main(e), Entry(c)), ![Lsn(e)] = ThreadOff]
    /\ hist' = [hist EXCEPT ![e] = HistNone]
    /\ sview' = [sview EXCEPT ![Main(e)] = ViewNone, ![Lsn(e)] = ViewNone]
    /\ UNCHANGED <<marker, Procs>>

\* An execution of the tool begun while no other one is in progress.
Begin(e, c) ==
    /\ \A o \in Execs : ex[o].phase # "run"
    /\ \E m \in (IF c = "start" THEN TermModes ELSE {"cooked"}) : Launch(e, c, m)

\* sys.exit(code), or main() returning.
ExitStatus(e) ==
    CASE th[Main(e)].pc = "exit0" -> 0
      [] th[Main(e)].pc = "exit1" -> 1
      [] th[Main(e)].pc = "exit130" -> 130
      [] th[Main(e)].pc = "exitrc" -> ex[e].returncode

\* The exit of a process whose listener is not a daemon thread: the
\* interpreter waits for the listener to end.
ExitJoinsListener(e) ==
    /\ Running(Main(e))
    /\ th[Main(e)].pc \in ExitPcs
    /\ th[Lsn(e)].pc \in {"off", "l_done"}
    /\ ex' = [ex EXCEPT ![e].phase = "exited", ![e].exitCode = ExitStatus(e)]
    /\ th' = [th EXCEPT ![Main(e)] = ThreadOff, ![Lsn(e)] = ThreadOff]
    /\ UNCHANGED <<marker, Procs, hist, sview>>

\* The process ends, and with it the listener thread (line 177:
\* daemon=True), wherever it is.
Exit(e) ==
    /\ Running(Main(e))
    /\ th[Main(e)].pc \in ExitPcs
    /\ ex' = [ex EXCEPT ![e].phase = "exited", ![e].exitCode = ExitStatus(e)]
    /\ th' = [th EXCEPT ![Main(e)] = ThreadOff, ![Lsn(e)] = ThreadOff]
    /\ SetHist(e, [hist[e] EXCEPT !.listener =
                      IF th[Lsn(e)].pc \in {"off", "l_done"} THEN @ ELSE "abandoned"])
    /\ UNCHANGED <<marker, Procs, sview>>

\* SIGINT: KeyboardInterrupt is raised in the main thread, wherever it is.
\* A file open in a with block is closed as the exception leaves the block.
Interrupt(e) ==
    LET t == Main(e) IN
    /\ Running(t)
    /\ th[t].pc \notin ExitPcs
    /\ ex[e].intrs < MaxIntr
    /\ ex' = [ex EXCEPT ![e].intrs = @ + 1]
    /\ SetTh(t, [Go(t, OnInterrupt(th[t].pc, th[t].stack)) EXCEPT !.fd = FALSE])
    /\ UNCHANGED <<marker, Procs, hist, sview>>

\* -------------------------------------------------------- is_music_playing
\* The observation of a finished check: what it found, what it returned and
\* whether the marker was absent when it returned.
Checked(e, found, ret, m) ==
    [hist[e] EXCEPT !.chk = [found |-> found, ret |-> ret, gone |-> ~m.exists],
                    !.start = IF ret = "T" /\ Head(th[Main(e)].stack) \in {"sm_chk", "smi_chk"}
                              THEN "already" ELSE @]

\* line 69: if not self.pid_file.exists(): return False
ImpExists(e) ==
    LET t == Main(e) IN
    /\ Running(t) /\ th[t].pc = "imp_exists"
    /\ IF marker.exists
         THEN /\ SetTh(t, [th[t] EXCEPT !.pc = "imp_read"])
              /\ SetHist(e, [hist[e] EXCEPT !.chk = NoCheck])
         ELSE /\ SetTh(t, Go(t, Ret(th[t].stack, "F")))
              /\ SetHist(e, Checked(e, "absent", "F", marker))
    /\ UNCHANGED <<marker, Procs, ex, sview>>

\* lines 72-73: open, read, int(): FileNotFoundError and ValueError go to
\* the handler of line 76.
ImpRead(e) ==
    LET t == Main(e) IN
    /\ Running(t) /\ th[t].pc = "imp_read"
    /\ IF marker.exists /\ IsNumeral(marker.content)
         THEN /\ SetTh(t, [th[t] EXCEPT !.pc = "imp_probe",
                                         !.pid = IntOf(marker.content)])
              /\ UNCHANGED hist
         ELSE /\ SetTh(t, [th[t] EXCEPT !.pc = "imp_exc"])
              /\ SetHist(e, [hist[e] EXCEPT !.chk.found =
                                IF marker.exists THEN "malformed" ELSE "vanished"])
    /\ UNCHANGED <<marker, Procs, ex, sview>>

\* lines 74-75: os.kill(pid, 0); return True.  OSError goes to line 76.
ImpProbe(e) ==
    LET t == Main(e) IN
    /\ Running(t) /\ th[t].pc = "imp_probe"
    /\ IF Alive(th[t].pid)
         THEN /\ SetTh(t, Go(t, Ret(th[t].stack, "T")))
              /\ SetHist(e, Checked(e, "live", "T", marker))
         ELSE /\ SetTh(t, [th[t] EXCEPT !.pc = "imp_exc"])
              /\ SetHist(e, [hist[e] EXCEPT !.chk.found = "stale"])
    /\ UNCHANGED <<marker, Procs, ex, sview>>

\* A handler that returns False and leaves the marker where it is.
ImpExcKeepsMarker(e) ==
    LET t == Main(e) IN
    /\ Running(t) /\ th[t].pc = "imp_exc"
    /\ SetTh(t, Go(t, Ret(th[t].stack, "F")))
    /\ SetHist(e, Checked(e, hist[e].chk.found, "F", marker))
    /\ UNCHANGED <<marker, Procs, ex, sview>>

\* line 77: if self.pid_file.exists(), else line 79: return False
ImpExc(e) ==
    LET t == Main(e) IN
    /\ Running(t) /\ th[t].pc = "imp_exc"
    /\ IF marker.exists
         THEN /\ SetTh(t, [th[t] EXCEPT !.pc = "imp_unlink"])
              /\ UNCHANGED hist
         ELSE /\ SetTh(t, Go(t, Ret(th[t].stack, "F")))
              /\ SetHist(e, Checked(e, hist[e].chk.found, "F", marker))
    /\ UNCHANGED <<marker, Procs, ex, sview>>

\* line 78: self.pid_file.unlink(), then return False.  When the marker is
\* gone by now, unlink raises FileNotFoundError inside the handler, which
\* leaves is_music_playing.
ImpUnlink(e) ==
    LET t == Main(e) IN
    /\ Running(t) /\ th[t].pc = "imp_unlink"
    /\ IF marker.exists
         THEN /\ marker' = NoMarker
              /\ SetThUnlink(t, Go(t, Ret(th[t].stack, "F")))
              /\ SetHist(e, [Checked(e, hist[e].chk.found, "F", NoMarker)
                               EXCEPT !.healed = TRUE])
         ELSE /\ UNCHANGED marker
              /\ SetTh(t, Go(t, Raise(th[t].stack, "EX")))
              /\ SetHist(e, Checked(e, hist[e].chk.found, "raise", marker))
    /\ UNCHANGED <<Procs, ex, sview>>

\* ------------------------------------------------------------- start_music
\* A start_music without the handler of line 104: FileNotFoundError goes
\* to the caller.
SmSelectFatal(e) ==
    LET t == Main(e) IN
    /\ Running(t) /\ th[t].pc = "sm_select"
    /\ \E asset \in BOOLEAN :
         IF asset
           THEN /\ SetTh(t, [th[t] EXCEPT !.pc = "sm_spawn"])
                /\ UNCHANGED hist
           ELSE /\ SetTh(t, Go(t, Raise(th[t].stack, "EX")))
                /\ SetHist(e, [hist[e] EXCEPT !.start = "noasset"])
    /\ UNCHANGED <<marker, Procs, ex, sview>>

\* line 89: get_random_music_file() returns a file or raises
\* FileNotFoundError, which line 104 catches: start_music returns.
SmSelect(e) ==
    LET t == Main(e) IN
    /\ Running(t) /\ th[t].pc = "sm_select"
    /\ \E asset \in BOOLEAN :
         IF asset
           THEN /\ SetTh(t, [th[t] EXCEPT !.pc = "sm_spawn"])
                /\ UNCHANGED hist
           ELSE /\ SetTh(t, Go(t, Ret(th[t].stack, "-")))
                /\ SetHist(e, [hist[e] EXCEPT !.start = "noasset"])
    /\ UNCHANGED <<marker, Procs, ex, sview>>

\* lines 93-96: Popen of the loop driver; the driver has not forked afplay yet.
SmSpawn(e) ==
    LET t == Main(e) IN
    /\ Running(t) /\ th[t].pc = "sm_spawn"
    /\ nextPid \in Pids
    /\ driver' = [driver EXCEPT ![nextPid] = TRUE]
    /\ nextPid' = nextPid + 1
    /\ SetTh(t, [th[t] EXCEPT !.pc = "sm_open", !.pid = nextPid])
    /\ SetHist(e, [hist[e] EXCEPT !.spawned = @ + 1])
    /\ UNCHANGED <<marker, player, ex, sview>>

\* lines 93-96 when bash cannot be launched: Popen raises OSError, which
\* line 104 catches.
SmSpawnRaise(e) ==
    LET t == Main(e) IN
    /\ Running(t) /\ th[t].pc = "sm_spawn"
    /\ SetTh(t, Go(t, Ret(th[t].stack, "-")))
    /\ SetHist(e, [hist[e] EXCEPT !.start = "spawnfail"])
    /\ UNCHANGED <<marker, Procs, ex, sview>>

\* line 98: open(self.pid_file, 'w') creates the marker or truncates it.
SmOpen(e) ==
    LET t == Main(e) IN
    /\ Running(t) /\ th[t].pc = "sm_open"
    /\ marker' = MarkerOf(<<>>)
    /\ SetTh(t, [th[t] EXCEPT !.pc = "sm_write", !.fd = TRUE])
    /\ UNCHANGED <<Procs, ex, hist, sview>>

\* A write of the first digit of the pid only.
SmWriteFirstDigit(e) ==
    LET t == Main(e)
        m == IF th[t].fd THEN MarkerOf(Overlay(marker.content, <<Head(Str(th[t].pid))>>))
             ELSE marker
    IN
    /\ Running(t) /\ th[t].pc = "sm_write"
    /\ marker' = m
    /\ SetTh(t, [Go(t, Ret(th[t].stack, "-")) EXCEPT !.fd = FALSE])
    /\ SetHist(e, [hist[e] EXCEPT !.start = "started",
                                  !.recorded = (m = MarkerOf(Str(th[t].pid)))])
    /\ UNCHANGED <<Procs, ex, sview>>

\* line 99 and the end of the with block: str(process.pid) is written at
\* offset 0 of the file opened at line 98 and the file is closed.
SmWrite(e) ==
    LET t == Main(e)
        m == IF th[t].fd THEN MarkerOf(Overlay(marker.content, Str(th[t].pid)))
             ELSE marker
    IN
    /\ Running(t) /\ th[t].pc = "sm_write"
    /\ marker' = m
    /\ SetTh(t, [Go(t, Ret(th[t].stack, "-")) EXCEPT !.fd = FALSE])
    /\ SetHist(e, [hist[e] EXCEPT !.start = "started",
                                  !.recorded = (m = MarkerOf(Str(th[t].pid)))])
    /\ UNCHANGED <<Procs, ex, sview>>

\* -------------------------------------------------------------- stop_music
\* The invocation of stop_music is counted when its first line runs.
Invoked(t) ==
    IF t[2] = "main"
      THEN [hist[t[1]] EXCEPT !.stops = @ + 1,
                              !.stopAfterIntr = @ \/ ex[t[1]].intrs > 0,
                              !.stopAfterCmd = @ \/ hist[t[1]].cmdEnd # "none"]
      ELSE [hist[t[1]] EXCEPT !.lstops = @ + 1]

\* A stop_music with no exists() guard: it goes on to read the marker.
StmExistsUnguarded(t) ==
    /\ Running(t) /\ th[t].pc = "stm_exists"
    /\ SetTh(t, [th[t] EXCEPT !.pc = "stm_read"])
    /\ SetHist(t[1], Invoked(t))
    /\ sview' = [sview EXCEPT ![t] = [ViewNone EXCEPT !.saw =
                    IF marker.exists THEN "marker" ELSE "nomarker"]]
    /\ UNCHANGED <<marker, Procs, ex>>

\* line 111: if self.pid_file.exists(), else line 122 and the sweep
StmExists(t) ==
    /\ Running(t) /\ th[t].pc = "stm_exists"
    /\ SetTh(t, [th[t] EXCEPT !.pc = IF marker.exists THEN "stm_read" ELSE "stm_sweep"])
    /\ SetHist(t[1], Invoked(t))
    /\ sview' = [sview EXCEPT ![t] = [ViewNone EXCEPT !.saw =
                    IF marker.exists THEN "marker" ELSE "nomarker"]]
    /\ UNCHANGED <<marker, Procs, ex>>

\* lines 112-113: open, read, int().  FileNotFoundError and ValueError are
\* raised outside the inner try: line 127 catches them and stop_music
\* returns, the marker kept and the sweep of line 126 skipped.
StmRead(t) ==
    /\ Running(t) /\ th[t].pc = "stm_read"
    /\ IF marker.exists /\ IsNumeral(marker.content)
         THEN LET p == IntOf(marker.content) IN
              /\ SetTh(t, [th[t] EXCEPT !.pc = "stm_pkillp", !.pid = p])
              /\ sview' = [sview EXCEPT ![t].target = p, ![t].saw =
                             IF ~Alive(p) THEN "dead"
                             ELSE IF player[p] = "child" THEN "child" ELSE "nochild"]
              /\ UNCHANGED hist
         ELSE /\ SetTh(t, Go(t, Ret(th[t].stack, "-")))
              /\ sview' = [sview EXCEPT ![t].done = TRUE, ![t].err = TRUE, ![t].saw =
                             IF marker.exists THEN "malformed" ELSE "vanished"]
              /\ SetHist(t[1], [hist[t[1]] EXCEPT !.err = TRUE])
    /\ UNCHANGED <<marker, Procs, ex>>

\* line 115: subprocess.run(['pkill', '-P', str(pid)]); its exit status is
\* not looked at.
StmPkillP(t) ==
    /\ Running(t) /\ th[t].pc = "stm_pkillp"
    /\ player' = AfterPkillP(th[t].pid)
    /\ SetTh(t, [th[t] EXCEPT !.pc = "stm_kill"])
    /\ sview' = [sview EXCEPT ![t].desc = TRUE]
    /\ UNCHANGED <<marker, driver, nextPid, ex, hist>>

\* line 115 when pkill cannot be launched: subprocess.run raises OSError,
\* line 117 catches it and line 116 is skipped.
StmPkillPRaise(t) ==
    /\ Running(t) /\ th[t].pc = "stm_pkillp"
    /\ SetTh(t, [th[t] EXCEPT !.pc = "stm_unlink"])
    /\ sview' = [sview EXCEPT ![t].desc = TRUE]
    /\ UNCHANGED <<marker, Procs, ex, hist>>

\* line 116: os.kill(pid, signal.SIGTERM); ProcessLookupError is an OSError,
\* caught at line 117.
StmKill(t) ==
    /\ Running(t) /\ th[t].pc = "stm_kill"
    /\ IF Alive(th[t].pid)
         THEN /\ driver' = DriversAfterKill(th[t].pid)
              /\ player' = PlayersAfterKill(th[t].pid)
         ELSE UNCHANGED <<driver, player>>
    /\ SetTh(t, [th[t] EXCEPT !.pc = "stm_unlink"])
    /\ sview' = [sview EXCEPT ![t].kill = TRUE,
                              ![t].orphaned = Alive(th[t].pid) /\ player[th[t].pid] = "child"]
    /\ UNCHANGED <<marker, nextPid, ex, hist>>

\* line 119: self.pid_file.unlink().  FileNotFoundError is caught at line
\* 127: stop_music returns and the sweep of line 126 is skipped.
StmUnlink(t) ==
    /\ Running(t) /\ th[t].pc = "stm_unlink"
    /\ IF marker.exists
         THEN /\ marker' = NoMarker
              /\ SetThUnlink(t, [th[t] EXCEPT !.pc = "stm_sweep"])
              /\ sview' = [sview EXCEPT ![t].unlinked = TRUE]
              /\ UNCHANGED hist
         ELSE /\ UNCHANGED marker
              /\ sview' = [sview EXCEPT ![t].done = TRUE, ![t].err = TRUE]
              /\ SetTh(t, Go(t, Ret(th[t].stack, "-")))
              /\ SetHist(t[1], [hist[t[1]] EXCEPT !.err = TRUE])
    /\ UNCHANGED <<Procs, ex>>

\* line 126: subprocess.run(['pkill', '-f', 'afplay.*muzakfiles'])
StmSweep(t) ==
    /\ Running(t) /\ th[t].pc = "stm_sweep"
    /\ driver' = DriversAfterSweep
    /\ player' = PlayersAfterSweep
    /\ SetTh(t, Go(t, Ret(th[t].stack, "-")))
    /\ sview' = [sview EXCEPT ![t].swept = TRUE, ![t].done = TRUE]
    /\ UNCHANGED <<marker, nextPid, ex, hist>>

\* A stop_music without the handler of line 127: the OSError of the sweep
\* goes to the caller.
StmSweepRaisePropagates(t) ==
    /\ Running(t) /\ th[t].pc = "stm_sweep"
    /\ SetTh(t, Go(t, Raise(th[t].stack, "EX")))
    /\ SetHist(t[1], [hist[t[1]] EXCEPT !.err = TRUE])
    /\ sview' = [sview EXCEPT ![t].done = TRUE, ![t].err = TRUE]
    /\ UNCHANGED <<marker, Procs, ex>>

\* line 126 when pkill cannot be launched: OSError, caught at line 127.
StmSweepRaise(t) ==
    /\ Running(t) /\ th[t].pc = "stm_sweep"
    /\ SetTh(t, Go(t, Ret(th[t].stack, "-")))
    /\ SetHist(t[1], [hist[t[1]] EXCEPT !.err = TRUE])
    /\ sview' = [sview EXCEPT ![t].done = TRUE, ![t].err = TRUE]
    /\ UNCHANGED <<marker, Procs, ex>>

\* ---------------------------------------------------------- run_with_music
\* lines 192-196 and the finally of line 197: the wrapped command ends with
\* an exit status, then stop_music() and return process.returncode.
RwCmd(e) ==
    LET t == Main(e) IN
    /\ Running(t) /\ th[t].pc = "rw_cmd"
    /\ \E r \in ExitCodes : ex' = [ex EXCEPT ![e].returncode = r]
    /\ SetTh(t, Go(t, At("stm_exists", <<"rw_finally">>)))
    /\ SetHist(e, [hist[e] EXCEPT !.cmdEnd = "exited"])
    /\ UNCHANGED <<marker, Procs, sview>>

\* The wrapped command raising with no finally around it: the exception
\* goes straight to main().
RwCmdRaiseNoFinally(e) ==
    LET t == Main(e) IN
    /\ Running(t) /\ th[t].pc = "rw_cmd"
    /\ SetTh(t, Go(t, MainHandler("EX")))
    /\ SetHist(e, [hist[e] EXCEPT !.cmdEnd = "raised"])
    /\ UNCHANGED <<marker, Procs, ex, sview>>

\* lines 192-195 when subprocess.run raises (the command cannot be
\* launched): stop_music() in the finally, then the exception goes on to
\* main().
RwCmdRaise(e) ==
    LET t == Main(e) IN
    /\ Running(t) /\ th[t].pc = "rw_cmd"
    /\ SetTh(t, Go(t, At("stm_exists", <<"rw_finally_ex">>)))
    /\ SetHist(e, [hist[e] EXCEPT !.cmdEnd = "raised"])
    /\ UNCHANGED <<marker, Procs, ex, sview>>

\* -------------------------------------------------------------------- hook
\* lines 204-206 and 209: print(json.dumps({"allow": True})); return 0
HkPrint(e) ==
    LET t == Main(e) IN
    /\ Running(t) /\ th[t].pc = "hk_print"
    /\ SetTh(t, Go(t, At("exit0", <<>>)))
    /\ SetHist(e, [hist[e] EXCEPT !.ack = TRUE])
    /\ UNCHANGED <<marker, Procs, ex, sview>>

\* ------------------------------------------------- start_music_interactive
\* lines 175-178 and 186: with KEYBOARD_AVAILABLE the listener thread is
\* started, without it the function returns.
SmiKbd(e) ==
    LET t == Main(e) IN
    /\ Running(t) /\ th[t].pc = "smi_kbd"
    /\ \E KEYBOARD_AVAILABLE \in BOOLEAN :
         IF KEYBOARD_AVAILABLE
           THEN /\ th' = [th EXCEPT ![t] = Go(t, At("smi_loop", <<>>)),
                                    ![Lsn(e)] = [ThreadOff EXCEPT !.pc = "l_capture"]]
                /\ SetHist(e, [hist[e] EXCEPT !.listener = "started"])
           ELSE /\ SetTh(t, Go(t, At("exit0", <<>>)))
                /\ UNCHANGED hist
    /\ UNCHANGED <<marker, Procs, ex, sview>>

\* line 180: while not self.stop_flag.is_set() and self.is_music_playing()
SmiLoop(e) ==
    LET t == Main(e) IN
    /\ Running(t) /\ th[t].pc = "smi_loop"
    /\ SetTh(t, Go(t, IF ex[e].stop_flag THEN At("exit0", <<>>)
                      ELSE At("imp_exists", <<"smi_poll">>)))
    /\ UNCHANGED <<marker, Procs, ex, hist, sview>>

\* -------------------------------------------------------- listen_for_escape
Lower(b) == IF b \in 65..90 THEN b + 32 ELSE b

\* A test that compares the byte with 'q' without lower().
IsTriggerCaseSensitive(b) == b \in {27, 3} \/ b = 113

\* line 145: char_ord in [27, 3] or char.lower() == 'q'
IsTrigger(b) == b \in {27, 3} \/ Lower(b) = 113

\* line 135: old_settings = termios.tcgetattr(sys.stdin)
LCapture(e) ==
    LET t == Lsn(e) IN
    /\ Running(t) /\ th[t].pc = "l_capture"
    /\ ex' = [ex EXCEPT ![e].old_settings = ex[e].term]
    /\ SetTh(t, [th[t] EXCEPT !.pc = "l_setraw"])
    /\ UNCHANGED <<marker, Procs, hist, sview>>

\* line 137: tty.setraw(sys.stdin.fileno())
LSetraw(e) ==
    LET t == Lsn(e) IN
    /\ Running(t) /\ th[t].pc = "l_setraw"
    /\ ex' = [ex EXCEPT ![e].term = "raw"]
    /\ SetTh(t, [th[t] EXCEPT !.pc = "l_loop"])
    /\ UNCHANGED <<marker, Procs, hist, sview>>

\* line 138: while not self.stop_flag.is_set()
LLoop(e) ==
    LET t == Lsn(e) IN
    /\ Running(t) /\ th[t].pc = "l_loop"
    /\ SetTh(t, [th[t] EXCEPT !.pc = IF ex[e].stop_flag THEN "l_finally" ELSE "l_select"])
    /\ UNCHANGED <<marker, Procs, ex, hist, sview>>

\* line 139: select.select([sys.stdin], [], [], 0.1)[0]
LSelect(e) ==
    LET t == Lsn(e) IN
    /\ Running(t) /\ th[t].pc = "l_select"
    /\ \E ready \in BOOLEAN :
         SetTh(t, [th[t] EXCEPT !.pc = IF ready THEN "l_read" ELSE "l_loop"])
    /\ UNCHANGED <<marker, Procs, ex, hist, sview>>

\* A listener whose loop is not inside try/finally: the exception ends it.
LSelectRaiseNoFinally(e) ==
    LET t == Lsn(e) IN
    /\ Running(t) /\ th[t].pc = "l_select"
    /\ SetTh(t, [th[t] EXCEPT !.pc = "l_done"])
    /\ SetHist(e, [hist[e] EXCEPT !.listener = "ended"])
    /\ UNCHANGED <<marker, Procs, ex, sview>>

\* line 139 raising (stdin closed): line 159 catches it, then the finally.
LSelectRaise(e) ==
    LET t == Lsn(e) IN
    /\ Running(t) /\ th[t].pc = "l_select"
    /\ SetTh(t, [th[t] EXCEPT !.pc = "l_finally"])
    /\ UNCHANGED <<marker, Procs, ex, hist, sview>>

\* The pid of the session that is live now (recorded in the marker and
\* running), 0 when there is none.
LiveSession ==
    IF marker.exists /\ IsNumeral(marker.content) /\ Alive(IntOf(marker.content))
      THEN IntOf(marker.content) ELSE 0

\* A listener that sets the flag first and calls stop_music afterwards.
LReadFlagFirst(e) ==
    LET t == Lsn(e) IN
    /\ Running(t) /\ th[t].pc = "l_read"
    /\ \E b \in Bytes :
         /\ SetTh(t, Go(t, IF IsTrigger(b) THEN At("stm_exists", <<"l_stop">>)
                           ELSE At("l_loop", <<>>)))
         /\ SetHist(e, [hist[e] EXCEPT !.byte = b,
                           !.trig = IF IsTrigger(b) THEN LiveSession ELSE @])
         /\ ex' = [ex EXCEPT ![e].stop_flag = IsTrigger(b)]
    /\ UNCHANGED <<marker, Procs, sview>>

\* lines 141-155: a byte is read; a trigger byte calls stop_music(quiet=True),
\* any other byte goes back to the loop.
LRead(e) ==
    LET t == Lsn(e) IN
    /\ Running(t) /\ th[t].pc = "l_read"
    /\ \E b \in Bytes :
         /\ SetTh(t, Go(t, IF IsTrigger(b) THEN At("stm_exists", <<"l_stop">>)
                           ELSE At("l_loop", <<>>)))
         /\ SetHist(e, [hist[e] EXCEPT !.byte = b,
                           !.trig = IF IsTrigger(b) THEN LiveSession ELSE @])
    /\ UNCHANGED <<marker, Procs, ex, sview>>

\* line 141 raising OSError (line 156: continue) or returning '' (line 142)
LReadNothing(e) ==
    LET t == Lsn(e) IN
    /\ Running(t) /\ th[t].pc = "l_read"
    /\ SetTh(t, [th[t] EXCEPT !.pc = "l_loop"])
    /\ UNCHANGED <<marker, Procs, ex, hist, sview>>

\* lines 154-155: self.stop_flag.set(); break
LSetFlag(e) ==
    LET t == Lsn(e) IN
    /\ Running(t) /\ th[t].pc = "l_setflag"
    /\ ex' = [ex EXCEPT ![e].stop_flag = TRUE]
    /\ SetTh(t, [th[t] EXCEPT !.pc = "l_finally"])
    /\ UNCHANGED <<marker, Procs, hist, sview>>

\* lines 161-166: termios.tcsetattr(sys.stdin, termios.TCSADRAIN, old_settings)
LFinally(e) ==
    LET t == Lsn(e) IN
    /\ Running(t) /\ th[t].pc = "l_finally"
    /\ ex' = [ex EXCEPT ![e].term = ex[e].old_settings]
    /\ SetTh(t, [th[t] EXCEPT !.pc = "l_done"])
    /\ SetHist(e, [hist[e] EXCEPT !.restores = @ + 1, !.listener = "ended"])
    /\ UNCHANGED <<marker, Procs, sview>>

\* ------------------------------------------------- the spawned processes
\* The driver's loop (line 95): while true; do afplay "<file>"; done
DriverForks(p) ==
    /\ driver[p] /\ player[p] = "none"
    /\ player' = [player EXCEPT ![p] = "child"]
    /\ UNCHANGED <<marker, driver, nextPid, ex, th, hist, sview>>

\* afplay reaches the end of the file and exits.
PlayerEnds(p) ==
    /\ player[p] # "none"
    /\ player' = [player EXCEPT ![p] = "none"]
    /\ UNCHANGED <<marker, driver, nextPid, ex, th, hist, sview>>

\* The driver is killed by something other than the tool.
DriverDies(p) ==
    /\ driver[p]
    /\ driver' = DriversAfterKill(p)
    /\ player' = PlayersAfterKill(p)
    /\ UNCHANGED <<marker, nextPid, ex, th, hist, sview>>

\* ------------------------------------------------------------------- specs
Step ==
    \/ \E e \in Execs : Exit(e)
    \/ \E e \in Execs : Interrupt(e)
    \/ \E e \in Execs : ImpExists(e)
    \/ \E e \in Execs : ImpRead(e)
    \/ \E e \in Execs : ImpProbe(e)
    \/ \E e \in Execs : ImpExc(e)
    \/ \E e \in Execs : ImpUnlink(e)
    \/ \E e \in Execs : SmSelect(e)
    \/ \E e \in Execs : SmSpawn(e)
    \/ \E e \in Execs : SmOpen(e)
    \/ \E e \in Execs : SmWrite(e)
    \/ \E t \in Threads : StmExists(t)
    \/ \E t \in Threads : StmRead(t)
    \/ \E t \in Threads : StmPkillP(t)
    \/ \E t \in Threads : StmKill(t)
    \/ \E t \in Threads : StmUnlink(t)
    \/ \E t \in Threads : StmSweep(t)
    \/ \E e \in Execs : RwCmd(e)
    \/ \E e \in Execs : RwCmdRaise(e)
    \/ \E e \in Execs : HkPrint(e)
    \/ \E e \in Execs : SmiKbd(e)
    \/ \E e \in Execs : SmiLoop(e)
    \/ \E e \in Execs : LCapture(e)
    \/ \E e \in Execs : LSetraw(e)
    \/ \E e \in Execs : LLoop(e)
    \/ \E e \in Execs : LSelect(e)
    \/ \E e \in Execs : LSelectRaise(e)
    \/ \E e \in Execs : LRead(e)
    \/ \E e \in Execs : LReadNothing(e)
    \/ \E e \in Execs : LSetFlag(e)
    \/ \E e \in Execs : LFinally(e)
    \/ \E p \in Pids : DriverForks(p)
    \/ \E p \in Pids : PlayerEnds(p)
    \/ \E p \in Pids : DriverDies(p)

\* Executions of the tool one after the other (each with its two threads),
\* on a host where bash and pkill can be launched.
Next ==
    \/ \E c \in Commands : Begin("e1", c)
    \/ Step

Spec == Init /\ [][Next]_vars

\* Start and Stop (hook start, hook stop, stop) issued one after the other on
\* a host where launching bash or pkill can fail: Popen and subprocess.run
\* raise OSError.
FaultCommands == {"hook_start", "hook_stop", "stop"}

NextFault ==
    \/ \E c \in FaultCommands : Begin("e1", c)
    \/ \E e \in Execs : Exit(e)
    \/ \E e \in Execs : Interrupt(e)
    \/ \E e \in Execs : ImpExists(e)
    \/ \E e \in Execs : ImpRead(e)
    \/ \E e \in Execs : ImpProbe(e)
    \/ \E e \in Execs : ImpExc(e)
    \/ \E e \in Execs : ImpUnlink(e)
    \/ \E e \in Execs : SmSelect(e)
    \/ \E e \in Execs : SmSpawn(e)
    \/ \E e \in Execs : SmSpawnRaise(e)
    \/ \E e \in Execs : SmOpen(e)
    \/ \E e \in Execs : SmWrite(e)
    \/ \E t \in Threads : StmExists(t)
    \/ \E t \in Threads : StmRead(t)
    \/ \E t \in Threads : StmPkillP(t)
    \/ \E t \in Threads : StmPkillPRaise(t)
    \/ \E t \in Threads : StmKill(t)
    \/ \E t \in Threads : StmUnlink(t)
    \/ \E t \in Threads : StmSweep(t)
    \/ \E t \in Threads : StmSweepRaise(t)
    \/ \E e \in Execs : HkPrint(e)
    \/ \E p \in Pids : DriverForks(p)
    \/ \E p \in Pids : PlayerEnds(p)
    \/ \E p \in Pids : DriverDies(p)

SpecFault == Init /\ [][NextFault]_vars

\* Interactive starts one after the other, the main thread of each always
\* getting to run (it is never blocked: the loop of lines 179-181 polls).
\* The afplay children of the drivers are left out: no step of either thread
\* reads them (the marker and os.kill name the driver only).
InteractiveCommands == {"start"}

\* One step of the main thread of execution e.
MainStep(e) ==
    \/ Exit(e)
    \/ ImpExists(e) \/ ImpRead(e) \/ ImpProbe(e) \/ ImpExc(e) \/ ImpUnlink(e)
    \/ SmSelect(e) \/ SmSpawn(e) \/ SmOpen(e) \/ SmWrite(e)
    \/ StmExists(Main(e)) \/ StmRead(Main(e)) \/ StmPkillP(Main(e))
    \/ StmKill(Main(e)) \/ StmUnlink(Main(e)) \/ StmSweep(Main(e))
    \/ SmiKbd(e) \/ SmiLoop(e)

NextInteractive ==
    \/ \E c \in InteractiveCommands : Begin("e1", c)
    \/ \E e \in Execs : MainStep(e)
    \/ \E e \in Execs : Interrupt(e)
    \/ \E e \in Execs : StmExists(Lsn(e))
    \/ \E e \in Execs : StmRead(Lsn(e))
    \/ \E e \in Execs : StmPkillP(Lsn(e))
    \/ \E e \in Execs : StmKill(Lsn(e))
    \/ \E e \in Execs : StmUnlink(Lsn(e))
    \/ \E e \in Execs : StmSweep(Lsn(e))
    \/ \E e \in Execs : LCapture(e)
    \/ \E e \in Execs : LSetraw(e)
    \/ \E e \in Execs : LLoop(e)
    \/ \E e \in Execs : LSelect(e)
    \/ \E e \in Execs : LSelectRaise(e)
    \/ \E e \in Execs : LRead(e)
    \/ \E e \in Execs : LReadNothing(e)
    \/ \E e \in Execs : LSetFlag(e)
    \/ \E e \in Execs : LFinally(e)
    \/ \E p \in Pids : DriverDies(p)

SpecInteractive ==
    Init /\ [][NextInteractive]_vars /\ WF_vars(MainStep("e1"))

\* An execution begun whatever the other executions are doing.
BeginOverlapping(e, c) ==
    \E m \in (IF c = "start" THEN TermModes ELSE {"cooked"}) : Launch(e, c, m)

\* Start and Stop issued by executions of the tool that overlap in time
\* (hook start and hook stop: start_music and stop_music, nothing else).
OverlapCommands == {"hook_start", "hook_stop"}

NextOverlap ==
    \/ \E e \in Execs, c \in OverlapCommands : BeginOverlapping(e, c)
    \/ \E e \in Execs : Exit(e)
    \/ \E e \in Execs : ImpExists(e)
    \/ \E e \in Execs : ImpRead(e)
    \/ \E e \in Execs : ImpProbe(e)
    \/ \E e \in Execs : ImpExc(e)
    \/ \E e \in Execs : ImpUnlink(e)
    \/ \E e \in Execs : SmSelect(e)
    \/ \E e \in Execs : SmSpawn(e)
    \/ \E e \in Execs : SmOpen(e)
    \/ \E e \in Execs : SmWrite(e)
    \/ \E t \in Threads : StmExists(t)
    \/ \E t \in Threads : StmRead(t)
    \/ \E t \in Threads : StmPkillP(t)
    \/ \E t \in Threads : StmKill(t)
    \/ \E t \in Threads : StmUnlink(t)
    \/ \E t \in Threads : StmSweep(t)
    \/ \E e \in Execs : HkPrint(e)
    \/ \E p \in Pids : DriverForks(p)
    \/ \E p \in Pids : PlayerEnds(p)
    \/ \E p \in Pids : DriverDies(p)

SpecOverlap == Init /\ [][NextOverlap]_vars

\* ------------------------------------------------------------------ claims
LiveDrivers == {p \in Pids : driver[p]}
LivePlayers == {p \in Pids : player[p] # "none"}

\* The step in which the liveness check of a Start (start_music or
\* start_music_interactive) of execution e finds the recorded process live.
StartFindsLive(e) ==
    /\ th[Main(e)].pc = "imp_probe"
    /\ Head(th[Main(e)].stack) \in {"sm_chk", "smi_chk"}
    /\ Alive(th[Main(e)].pid)
    /\ th'[Main(e)].pc # "imp_probe"
    /\ ex'[e].intrs = ex[e].intrs

\* C1: a Start or Interactive Start whose liveness probe of the recorded
\* identity succeeds returns to its caller at once: it spawns no process and
\* leaves the marker as it was, so the processes live after it are those live
\* before it; an execution whose Start found a live session never spawns.
C1_SecondStartSpawnsNothing ==
    /\ [](\A e \in Execs :
            hist[e].start = "already" => hist[e].spawned = 0 /\ ~hist[e].recorded)
    /\ [][\A e \in Execs :
            StartFindsLive(e) =>
                /\ marker' = marker
                /\ driver' = driver /\ player' = player /\ nextPid' = nextPid
                /\ hist'[e].start = "already"
                /\ th'[Main(e)].pc \in {"exit0", "rw_cmd", "hk_print"}]_vars

\* C1 witness: a Start has just returned "already playing" and exactly one
\* driver, the one the marker records, is live.
C1_Witness ==
    \E e \in Execs :
        /\ hist[e].start = "already"
        /\ ex[e].phase = "run"
        /\ \E p \in Pids : LiveDrivers = {p} /\ marker = MarkerOf(Str(p))

\* C2: whatever the wrapped command does (exit status 0, 1, 127, or raising),
\* run_with_music calls stop_music after the command has ended; when it
\* returns (or the command's exception leaves it) the marker is absent and no
\* driver and no player is live, and the status returned, which main() passes
\* to sys.exit, is the command's.
C2_RunCleansUp ==
    \A e \in Execs :
        /\ (ex[e].cmd = "run" /\ th[Main(e)].pc \in {"exitrc", "exit1"}) =>
              /\ hist[e].cmdEnd = (IF th[Main(e)].pc = "exitrc" THEN "exited" ELSE "raised")
              /\ hist[e].stopAfterCmd
              /\ ~marker.exists
              /\ LiveDrivers = {} /\ LivePlayers = {}
        /\ (ex[e].cmd = "run" /\ ex[e].phase = "exited" /\ hist[e].cmdEnd = "exited"
              /\ ex[e].intrs = 0) =>
              ex[e].exitCode = ex[e].returncode /\ ex[e].returncode \in ExitCodes

\* C2 witness: a run that started the music and whose command exited with
\* status 127 has returned.
C2_Witness ==
    \E e \in Execs :
        /\ ex[e].cmd = "run" /\ ex[e].phase = "exited"
        /\ hist[e].start = "started" /\ hist[e].stopAfterCmd
        /\ ex[e].exitCode = 127

\* C2 witness of the other outcome: the command raised and the finally ran.
C2_WitnessRaised ==
    \E e \in Execs :
        /\ ex[e].cmd = "run" /\ th[Main(e)].pc = "exit1"
        /\ hist[e].start = "started" /\ hist[e].cmdEnd = "raised"

\* C3: at most one driver spawned by the tool is live, in every state, however
\* the steps of overlapping Start and Stop executions interleave.
C3_AtMostOneLiveInstance == Cardinality(LiveDrivers) <= 1

RemovedMarkerItself(t) == sview[t].unlinked

C6_TerminalRestoredOnce ==
    \A e \in Execs :
        /\ hist[e].restores <= 1
        /\ (th[Lsn(e)].pc = "l_done" \/ hist[e].listener = "ended") =>
              /\ hist[e].restores = 1
              /\ ex[e].old_settings \in TermModes
              /\ ex[e].term = ex[e].old_settings

\* C6 witness: the listener captured mode cbreak, went raw, handled a trigger
\* key and ended.
C6_Witness ==
    \E e \in Execs :
        /\ th[Lsn(e)].pc = "l_done" /\ hist[e].lstops = 1 /\ ex[e].stop_flag
        /\ ex[e].old_settings = "cbreak" /\ ex[e].term = "cbreak"

\* C6 witness of the exceptional end: the listener ended without a trigger.
C6_WitnessException ==
    \E e \in Execs :
        /\ th[Lsn(e)].pc = "l_done" /\ hist[e].lstops = 0 /\ ~ex[e].stop_flag
        /\ ex[e].old_settings = "cbreak" /\ ex[e].term = "cbreak"

\* The trigger bytes: ESC (0x1B), Ctrl+C (0x03), 'Q' and 'q'.
TriggerBytes == {27, 3, 81, 113}

\* The listener of execution e takes the step that handles the byte read.
ListenerReads(e) ==
    /\ th[Lsn(e)].pc = "l_read"
    /\ th'[Lsn(e)].pc \notin {"l_read", "off"}
    /\ hist'[e].byte # 0

\* C7: a trigger byte read by the listener makes it call stop_music, exactly
\* once in its life, and set the flag when that call has returned; any other
\* byte leaves the flag, the count of Stop calls, the marker and the processes
\* as they were and sends the listener back to its loop.
C7_CancellationRouting ==
    /\ [](\A e \in Execs :
            /\ hist[e].lstops <= 1
            /\ hist[e].lstops = 1 => hist[e].byte \in TriggerBytes
            /\ ex[e].stop_flag => hist[e].lstops = 1
            /\ (th[Lsn(e)].pc \in (StopPcs \ {"stm_exists"}) \cup {"l_setflag"}) =>
                  hist[e].lstops = 1 /\ ~ex[e].stop_flag
            /\ (th[Lsn(e)].pc \in {"l_finally", "l_done"} /\ hist[e].lstops = 1) =>
                  ex[e].stop_flag)
    /\ [][\A e \in Execs :
            ListenerReads(e) =>
                IF hist'[e].byte \in TriggerBytes
                  THEN /\ th'[Lsn(e)].pc = "stm_exists"
                       /\ th'[Lsn(e)].stack = <<"l_stop">>
                  ELSE /\ th'[Lsn(e)].pc = "l_loop"
                       /\ ex' = ex /\ marker' = marker
                       /\ driver' = driver /\ player' = player
                       /\ hist'[e].lstops = hist[e].lstops]_vars

\* C7 witness: the listener read 'Q', called stop_music once, which stopped a
\* live session, and set the flag.
C7_Witness ==
    \E e \in Execs :
        /\ hist[e].byte = 81 /\ hist[e].lstops = 1 /\ ex[e].stop_flag
        /\ sview[Lsn(e)].saw \in {"child", "nochild"} /\ sview[Lsn(e)].swept

\* C7 witness of the other case: the listener read 'x' and watches on while
\* the session plays.
C7_WitnessOther ==
    \E e \in Execs :
        /\ hist[e].byte = 120 /\ th[Lsn(e)].pc = "l_select"
        /\ hist[e].lstops = 0 /\ ~ex[e].stop_flag
        /\ LiveDrivers # {} /\ marker.exists

\* C8: an execution that received one interrupt, at whatever point of its
\* operation, has called stop_music after the interrupt by the time it leaves
\* main(), and exits with status 0.
C8_InterruptRoutesToStop ==
    \A e \in Execs :
        /\ (ex[e].intrs = 1 /\ th[Main(e)].pc \in ExitPcs) =>
              hist[e].stopAfterIntr /\ th[Main(e)].pc = "exit0"
        /\ (ex[e].intrs = 1 /\ ex[e].phase = "exited") =>
              hist[e].stopAfterIntr /\ ex[e].exitCode = 0

\* C8 witness: hook start was interrupted between Popen and the write of the
\* marker, and has exited.
C8_Witness ==
    \E e \in Execs :
        /\ ex[e].cmd = "hook_start" /\ ex[e].phase = "exited" /\ ex[e].intrs = 1
        /\ hist[e].spawned = 1 /\ hist[e].start = "none"
        /\ hist[e].stopAfterIntr /\ ex[e].exitCode = 0

\* C8 witness in run: interrupted inside the wrapped command.
C8_WitnessRun ==
    \E e \in Execs :
        /\ ex[e].cmd = "run" /\ ex[e].phase = "exited" /\ ex[e].intrs = 1
        /\ hist[e].cmdEnd = "none" /\ hist[e].start = "started" /\ hist[e].stops = 2

\* The step of thread t is a step of a stop_music call that found no marker.
NoMarkerStopSteps(t) ==
    /\ th[t].pc \in StopPcs
    /\ th'[t].pc # th[t].pc
    /\ ex'[t[1]].intrs = ex[t[1]].intrs
    /\ IF th[t].pc = "stm_exists" THEN ~marker.exists ELSE sview[t].saw = "nomarker"

\* C9: a Stop that finds no marker goes straight to the sweep and returns
\* with no error caught, the marker still absent; when nothing is live its
\* steps change neither the marker nor any process, so each further such Stop
\* leaves the state the first one left.
C9_StopIdempotent ==
    /\ [](\A t \in Threads :
            sview[t].saw = "nomarker" =>
                /\ th[t].pc \notin {"stm_read", "stm_pkillp", "stm_kill", "stm_unlink"}
                /\ ~sview[t].err
                /\ th[t].pc = "stm_sweep" => ~marker.exists
                /\ sview[t].done => sview[t].swept)
    /\ [][\A t \in Threads :
            NoMarkerStopSteps(t) =>
                /\ marker' = marker
                /\ nextPid' = nextPid
                /\ ~sview'[t].err
                /\ (LiveDrivers = {} /\ LivePlayers = {}) =>
                      driver' = driver /\ player' = player]_vars

\* C9 witness: two Stops in a row in one execution, both finding no marker
\* (run with no audio file, interrupted in the wrapped command), have returned.
C9_Witness ==
    \E e \in Execs :
        /\ ex[e].cmd = "run" /\ hist[e].start = "noasset" /\ hist[e].stops = 2
        /\ sview[Main(e)].saw = "nomarker" /\ sview[Main(e)].done
        /\ ~hist[e].err /\ ~marker.exists

\* C10: a Stop that read a pid from the marker has attempted both the
\* termination of the descendants (pkill -P) and that of the recorded process
\* (os.kill) by the time it goes on to remove the marker, whether or not
\* either attempt failed.
C10_BothTerminationsAttempted ==
    \A t \in Threads :
        th[t].pc = "stm_unlink" => sview[t].desc /\ sview[t].kill

\* C11: every stop_music call that has ended has issued the sweep
\* (pkill -f 'afplay.*muzakfiles'), whatever the marker held when it began
\* and whatever became of the marker while it ran.
C11_EveryStopSweeps ==
    \A t \in Threads : sview[t].done => sview[t].swept

\* C12: no is_music_playing call ends by raising: every call returns True or
\* False, also when another thread removes the marker while it runs.
C12_CheckNeverRaises ==
    \A e \in Execs : hist[e].chk.ret # "raise"

\* The step of thread t ends its stop_music call (not by an interrupt and not
\* by the process exiting).
StopEnds(t) ==
    /\ th[t].pc \in StopPcs
    /\ th'[t].pc \notin StopPcs \/ th'[t].stack # th[t].stack
    /\ ex'[t[1]].intrs = ex[t[1]].intrs
    /\ ex'[t[1]].phase = "run"

\* C13: every stop_music call that ends, ends by returning to the statement
\* after the call, whatever the marker held and whichever of reading the
\* marker, terminating, removing the marker and sweeping failed: an error
\* caught inside it is never seen by the caller.
C13_StopReturnsNormally ==
    /\ [](\A t \in Threads : sview[t].err => sview[t].done)
    /\ [][\A t \in Threads :
            StopEnds(t) =>
                /\ sview'[t].done
                /\ th'[t].pc = Ret(th[t].stack, "-").pc
                /\ th'[t].stack = Ret(th[t].stack, "-").stack]_vars

\* C13 witness: a `stop` whose sweep could not be launched after it had
\* removed the marker has returned to main(), which is exiting with status 0.
C13_Witness ==
    \E e \in Execs :
        /\ ex[e].cmd = "stop" /\ ex[e].intrs = 0
        /\ sview[Main(e)].unlinked /\ sview[Main(e)].err /\ sview[Main(e)].done
        /\ ~sview[Main(e)].swept
        /\ th[Main(e)].pc = "exit0"

\* C13 witness of a failed read: the marker held text that is no pid.
C13_WitnessMalformed ==
    \E e \in Execs :
        /\ ex[e].cmd = "hook_stop" /\ ex[e].intrs = 0
        /\ sview[Main(e)].saw = "malformed" /\ sview[Main(e)].err
        /\ th[Main(e)].pc = "exit0"

\* The main thread of execution e is in the loop of lines 179-181.
InLoop(e) ==
    /\ ex[e].phase = "run"
    /\ \/ th[Main(e)].pc = "smi_loop"
       \/ /\ th[Main(e)].stack # <<>>
          /\ th[Main(e)].stack[Len(th[Main(e)].stack)] = "smi_poll"

\* The marker records a live process.
SessionLive ==
    marker.exists /\ IsNumeral(marker.content) /\ Alive(IntOf(marker.content))

\* C14: once the main thread of an interactive start is in its polling loop
\* and the flag is set or the session is no longer live, the main flow leaves
\* the loop and the process exits, with the listener still watching or not.
C14_InteractiveStartTerminates ==
    (InLoop("e1") /\ (ex["e1"].stop_flag \/ ~SessionLive)) ~> (ex["e1"].phase = "exited")

\* C14 witness: the session died while the listener was watching in raw mode;
\* the main loop ended and the process has exited, the listener abandoned.
C14_Witness ==
    \E e \in Execs :
        /\ ex[e].cmd = "start" /\ ex[e].phase = "exited" /\ ex[e].intrs = 0
        /\ hist[e].start = "started" /\ hist[e].listener = "abandoned"
        /\ ~ex[e].stop_flag /\ hist[e].lstops = 0 /\ hist[e].chk.ret = "F"

\* C14 witness of the flag: the main loop found the flag set and has exited.
C14_WitnessFlag ==
    \E e \in Execs :
        /\ ex[e].cmd = "start" /\ ex[e].phase = "exited" /\ ex[e].intrs = 0
        /\ ex[e].stop_flag /\ hist[e].chk.ret = "T"

\* The step in which the Start of execution e finds no audio file.
FindsNoAsset(e) ==
    /\ th[Main(e)].pc = "sm_select"
    /\ hist'[e].start = "noasset"
    /\ ex'[e].intrs = ex[e].intrs

\* C15: a Start that finds no audio file spawns nothing, leaves the marker
\* as it is and returns to its caller: hook start then prints its
\* acknowledgement and exits with status 0, run goes on to the wrapped
\* command, the interactive start exits with status 0.
C15_AssetMissingNotFatal ==
    /\ [](\A e \in Execs :
            hist[e].start = "noasset" =>
                /\ hist[e].spawned = 0 /\ ~hist[e].recorded
                /\ th[Main(e)].pc \notin {"sm_spawn", "sm_open", "sm_write"}
                /\ (ex[e].phase = "exited" /\ ex[e].intrs = 0) =>
                      /\ ex[e].cmd = "hook_start" => hist[e].ack /\ ex[e].exitCode = 0
                      /\ ex[e].cmd = "run" => hist[e].cmdEnd # "none"
                      /\ ex[e].cmd = "start" => ex[e].exitCode = 0)
    /\ [][\A e \in Execs :
            FindsNoAsset(e) =>
                /\ th'[Main(e)].pc = Ret(th[Main(e)].stack, "-").pc
                /\ th'[Main(e)].stack = Ret(th[Main(e)].stack, "-").stack
                /\ marker' = marker /\ driver' = driver
                /\ player' = player /\ nextPid' = nextPid]_vars

\* C15 witness: hook start (quiet) found no audio file, acknowledged and
\* exited with status 0, nothing spawned and no marker.
C15_Witness ==
    \E e \in Execs :
        /\ ex[e].cmd = "hook_start" /\ hist[e].start = "noasset"
        /\ ex[e].phase = "exited" /\ ex[e].exitCode = 0 /\ hist[e].ack
        /\ ~marker.exists /\ LiveDrivers = {} /\ nextPid = FirstPid

\* C15 witness for run (not quiet): the wrapped command ran and its status
\* is the exit status.
C15_WitnessRun ==
    \E e \in Execs :
        /\ ex[e].cmd = "run" /\ hist[e].start = "noasset"
        /\ ex[e].phase = "exited" /\ hist[e].cmdEnd = "exited"
        /\ ex[e].exitCode = 127 /\ ex[e].returncode = 127

\* No execution of the tool is in progress.
Quiescent == \A e \in Execs : ex[e].phase # "run"

\* C16: whenever no execution of the tool is in progress and the marker is
\* absent, no process spawned by the tool is live.
C16_NoLeakWhenQuiescent ==
    (Quiescent /\ ~marker.exists) => LiveDrivers = {}

\* C17: a process whose listener captured the terminal mode has, when it has
\* exited, left the terminal in the captured mode.
C17_TerminalModeAtExit ==
    \A e \in Execs :
        (ex[e].phase = "exited" /\ ex[e].old_settings # "none") =>
            ex[e].term = ex[e].old_settings

\* C18: the flag is unset for as long as the listener's stop_music call has
\* not returned, and whenever the flag is set the session that was live when
\* the trigger byte was read is stopped: its process is dead and the marker
\* that recorded it is removed.
C18_StopPrecedesFlag ==
    \A e \in Execs :
        /\ (th[Lsn(e)].pc \in StopPcs \cup {"l_setflag"}) => ~ex[e].stop_flag
        /\ ex[e].stop_flag =>
              /\ hist[e].lstops = 1 /\ sview[Lsn(e)].done
              /\ hist[e].trig # 0 =>
                    /\ ~driver[hist[e].trig]
                    /\ marker # MarkerOf(Str(hist[e].trig))
                    /\ ex[e].phase = "run" => ~marker.exists

\* C18 witness: the flag is set after the listener's Stop killed the session
\* that was live at the trigger and removed its marker.
C18_Witness ==
    \E e \in Execs :
        /\ ex[e].phase = "run" /\ ex[e].stop_flag /\ hist[e].trig = FirstPid
        /\ sview[Lsn(e)].unlinked /\ sview[Lsn(e)].swept /\ sview[Lsn(e)].done
        /\ ~marker.exists /\ ~driver[FirstPid]

\* C18 witness of the race: the listener's Stop found the marker already
\* removed by the main thread, returned, and the flag is set.
C18_WitnessRace ==
    \E e \in Execs :
        /\ ex[e].phase = "run" /\ ex[e].stop_flag /\ hist[e].trig # 0
        /\ sview[Lsn(e)].err /\ sview[Lsn(e)].done

\* The pids of the processes the tool has spawned so far.
SpawnedPids == FirstPid .. (nextPid - 1)

\* The step in which the start_music of execution e returns after its write.
StartReturns(e) ==
    /\ th[Main(e)].pc = "sm_write"
    /\ hist'[e].start = "started"

\* C19: a Start spawns at most one process and opens and writes the marker
\* only after the spawn; when it returns after the write the marker holds
\* exactly str(pid) of the process it spawned, which reads back as that pid;
\* and a pid in the marker is always that of a spawned process, unless it is
\* the one left there before the tool ran.
C19_StartPostcondition ==
    /\ [](\A e \in Execs :
            /\ hist[e].spawned <= 1
            /\ th[Main(e)].pc \in {"sm_open", "sm_write"} =>
                  hist[e].spawned = 1 /\ th[Main(e)].pid = nextPid - 1
            /\ hist[e].start = "started" => hist[e].spawned = 1 /\ hist[e].recorded)
    /\ [](marker.exists /\ IsNumeral(marker.content) =>
            IntOf(marker.content) \in SpawnedPids \cup {StalePid})
    /\ [][\A e \in Execs :
            StartReturns(e) =>
                /\ marker' = MarkerOf(Str(th[Main(e)].pid))
                /\ IntOf(marker'.content) = th[Main(e)].pid
                /\ th[Main(e)].pid \in SpawnedPids
                /\ hist[e].spawned = 1]_vars
    /\ [][(marker' # marker /\ marker'.exists) =>
            \E e \in Execs : th[Main(e)].pc \in {"sm_open", "sm_write"}
                             /\ hist[e].spawned = 1]_vars

\* C19 witness: the second Start of the behaviour has returned; the marker
\* holds the two digits of the pid of the driver it spawned, which is live.
C19_Witness ==
    \E e \in Execs :
        /\ hist[e].start = "started" /\ hist[e].spawned = 1
        /\ th[Main(e)].pc \in {"hk_print", "rw_cmd", "smi_kbd"}
        /\ marker = MarkerOf(Str(FirstPid + 1)) /\ Len(marker.content) = 2
        /\ driver[FirstPid + 1] /\ nextPid = FirstPid + 2
====
